---- MODULE Spec2Model ----
(***************************************************************************)
(* A model of calculateAverageMine.py: get_file_chunks plans line-aligned  *)
(* byte ranges over a file, _process_file_chunk folds the records of one   *)
(* range into per-key [min, max, sum, count] lists, and process_file       *)
(* merges the per-range mappings and prints the summary.                   *)
(*                                                                         *)
(* The file is a sequence of bytes (0..255).  Text is a sequence of code   *)
(* points; opening the file in text mode decodes the bytes as UTF-8.       *)
(* A Python list [min, max, sum, count] is the tuple <<min, max, sum,      *)
(* count>> (index 0 of the code is index 1 here).  Values are the numbers  *)
(* float() returns; the inputs are small integers, on which float          *)
(* arithmetic is exact.                                                    *)
(***************************************************************************)
EXTENDS Integers, Sequences, FiniteSets, TLC

VARIABLES
    data,           \* the bytes of the file named by filename
    os_cpu_count,   \* what os.cpu_count() returns on this machine
    requested,      \* the cpu_count argument of get_file_chunks
    cpu_count,      \* cpu_count after line 11
    file_size,      \* os.path.getsize(filename)
    chunk_size,     \* file_size // cpu_count
    chunk_start,    \* get_file_chunks' local
    chunk_end,      \* get_file_chunks' local
    start_end,      \* the list of (chunk_start, chunk_end) ranges
    chunk_results,  \* per range: what its _process_file_chunk returned, or NotRun
    merged,         \* how many chunk_results the merge loop has consumed
    result,         \* process_file's merged mapping
    stdout,         \* what has been printed
    exc,            \* the exception that ended the run, or "none"
    pc              \* the program's position

vars == <<data, os_cpu_count, requested, cpu_count, file_size, chunk_size,
          chunk_start, chunk_end, start_end, chunk_results, merged, result,
          stdout, exc, pc>>

(***************************************************************************)
(* Bounds of the model.                                                    *)
(***************************************************************************)
MaxLen == 8       \* longest file of PlanSpec, in bytes
MaxW == 8         \* largest requested worker count of PlanSpec
MaxLines == 4     \* most lines in a file of Spec

(***************************************************************************)
(* Bytes and characters.                                                   *)
(***************************************************************************)
NL == 10          \* "\n"
SEMI == 59        \* ";"

Min(a, b) == IF a < b THEN a ELSE b

\* a // b of Python (floor division), b /= 0
FloorDiv(a, b) == IF b > 0 THEN a \div b ELSE (0 - a) \div (0 - b)

\* str.encode("utf-8") of one code point below U+0800
UTF8EncodeChar(cp) ==
    IF cp < 128 THEN <<cp>> ELSE <<192 + (cp \div 64), 128 + (cp % 64)>>

RECURSIVE UTF8Encode(_)
UTF8Encode(text) ==
    IF text = <<>> THEN <<>>
    ELSE UTF8EncodeChar(Head(text)) \o UTF8Encode(Tail(text))

\* the text a file opened with encoding="utf-8" yields from these bytes
\* (one- and two-byte sequences; 65533 stands for bytes that do not decode)
RECURSIVE UTF8Decode(_)
UTF8Decode(bytes) ==
    IF bytes = <<>> THEN <<>>
    ELSE IF Head(bytes) < 128 THEN <<Head(bytes)>> \o UTF8Decode(Tail(bytes))
    ELSE IF /\ Head(bytes) >= 192 /\ Head(bytes) < 224 /\ Len(bytes) >= 2
            /\ bytes[2] >= 128 /\ bytes[2] < 192
         THEN <<(Head(bytes) - 192) * 64 + (bytes[2] - 128)>>
                  \o UTF8Decode(Tail(Tail(bytes)))
    ELSE <<65533>> \o UTF8Decode(Tail(bytes))

(***************************************************************************)
(* get_file_chunks' helpers (closures over the open binary file).          *)
(***************************************************************************)
\* is_line_end reading the byte at position instead of position - 1
is_line_end_off_by_one(position) ==
    IF position = 0 THEN TRUE
    ELSE position + 1 <= Len(data) /\ data[position + 1] = NL

\* is_line_end without its position == 0 case
is_line_end_no_zero(position) ==
    position >= 1 /\ position <= Len(data) /\ data[position] = NL

\* lines 18-23: position 0, or f.seek(position - 1); f.read(1) == b"\n"
\* (a read at end of file gives b"")
is_line_end(position) ==
    IF position = 0 THEN TRUE
    ELSE position - 1 < Len(data) /\ data[position] = NL

\* f.seek(position) raises OSError for a negative offset
SeekFails(position) == position < 0

\* the offset f.tell() gives after f.seek(position); f.readline()
RECURSIVE ReadlineEnd(_)
ReadlineEnd(position) ==
    IF position >= Len(data) THEN Len(data)
    ELSE IF data[position + 1] = NL THEN position + 1
    ELSE ReadlineEnd(position + 1)

\* next_line without its f.readline()
next_line_no_readline(position) == position

\* lines 25-28
next_line(position) == ReadlineEnd(position)

(***************************************************************************)
(* get_file_chunks, step by step.                                          *)
(***************************************************************************)
PlanVarsUnchanged ==
    UNCHANGED <<data, os_cpu_count, requested, chunk_results, merged, result,
                stdout>>

\* lines 11-15, 30-31
GetFileChunksEnter ==
    /\ pc = "get_file_chunks"
    /\ Min(os_cpu_count, requested) /= 0
    /\ cpu_count' = Min(os_cpu_count, requested)
    /\ file_size' = Len(data)
    /\ chunk_size' = FloorDiv(Len(data), cpu_count')
    /\ start_end' = <<>>
    /\ chunk_start' = 0
    /\ pc' = "while"
    /\ UNCHANGED <<chunk_end, exc>>
    /\ PlanVarsUnchanged

\* line 13 with cpu_count = 0
GetFileChunksZeroDivision ==
    /\ pc = "get_file_chunks"
    /\ Min(os_cpu_count, requested) = 0
    /\ cpu_count' = 0
    /\ file_size' = Len(data)
    /\ exc' = "ZeroDivisionError"
    /\ pc' = "failed"
    /\ UNCHANGED <<chunk_size, chunk_start, chunk_end, start_end>>
    /\ PlanVarsUnchanged

\* lines 33-34: the loop condition holds
PlanPropose ==
    /\ pc = "while"
    /\ chunk_start < file_size
    /\ chunk_end' = Min(file_size, chunk_start + chunk_size)
    /\ pc' = "scan"
    /\ UNCHANGED <<cpu_count, file_size, chunk_size, chunk_start, start_end, exc>>
    /\ PlanVarsUnchanged

\* lines 36-37: one iteration of the backward scan
PlanScanBack ==
    /\ pc = "scan"
    /\ ~SeekFails(chunk_end)
    /\ ~is_line_end(chunk_end)
    /\ chunk_end' = chunk_end - 1
    /\ UNCHANGED <<cpu_count, file_size, chunk_size, chunk_start, start_end, exc, pc>>
    /\ PlanVarsUnchanged

\* line 36: the scan ends at a line end
PlanScanDone ==
    /\ pc = "scan"
    /\ ~SeekFails(chunk_end)
    /\ is_line_end(chunk_end)
    /\ pc' = "collapse"
    /\ UNCHANGED <<cpu_count, file_size, chunk_size, chunk_start, chunk_end,
                   start_end, exc>>
    /\ PlanVarsUnchanged

\* line 22 with a negative position
PlanSeekError ==
    /\ pc = "scan"
    /\ SeekFails(chunk_end)
    /\ exc' = "OSError"
    /\ pc' = "failed"
    /\ UNCHANGED <<cpu_count, file_size, chunk_size, chunk_start, chunk_end, start_end>>
    /\ PlanVarsUnchanged

\* lines 39-40: the scan collapsed the range
PlanCollapse ==
    /\ pc = "collapse"
    /\ chunk_start = chunk_end
    /\ chunk_end' = next_line(chunk_end)
    /\ pc' = "append"
    /\ UNCHANGED <<cpu_count, file_size, chunk_size, chunk_start, start_end, exc>>
    /\ PlanVarsUnchanged

\* line 39: the range is not empty
PlanKeep ==
    /\ pc = "collapse"
    /\ chunk_start /= chunk_end
    /\ pc' = "append"
    /\ UNCHANGED <<cpu_count, file_size, chunk_size, chunk_start, chunk_end,
                   start_end, exc>>
    /\ PlanVarsUnchanged

\* lines 42-50
PlanEmit ==
    /\ pc = "append"
    /\ start_end' = Append(start_end, <<chunk_start, chunk_end>>)
    /\ chunk_start' = chunk_end
    /\ pc' = "while"
    /\ UNCHANGED <<cpu_count, file_size, chunk_size, chunk_end, exc>>
    /\ PlanVarsUnchanged

\* lines 33, 52: the loop condition fails and the function returns
GetFileChunksReturn ==
    /\ pc = "while"
    /\ ~(chunk_start < file_size)
    /\ pc' = "process_file"
    /\ UNCHANGED <<cpu_count, file_size, chunk_size, chunk_start, chunk_end,
                   start_end, exc>>
    /\ PlanVarsUnchanged

PlanNext ==
    \/ GetFileChunksEnter
    \/ PlanPropose
    \/ PlanScanBack
    \/ PlanScanDone
    \/ PlanCollapse
    \/ PlanKeep
    \/ PlanEmit
    \/ GetFileChunksReturn

(***************************************************************************)
(* PlanSpec: get_file_chunks on every file of 1..MaxLen bytes over         *)
(* {"\n", "A"} and every requested worker count 1..MaxW.                   *)
(***************************************************************************)
OsCpuCounts == {2, 8}

RECURSIVE ByteStrings(_)
ByteStrings(n) ==
    IF n = 0 THEN {<<>>}
    ELSE LET shorter == ByteStrings(n - 1)
         IN shorter \cup {Append(s, b) : s \in {t \in shorter : Len(t) = n - 1},
                                         b \in {NL, 65}}

NotRun == [exc |-> "not run", result |-> <<>>]

InitRest ==
    /\ cpu_count = 0
    /\ file_size = 0
    /\ chunk_size = 0
    /\ chunk_start = 0
    /\ chunk_end = 0
    /\ start_end = <<>>
    /\ chunk_results = <<>>
    /\ merged = 0
    /\ result = <<>>
    /\ stdout = <<>>
    /\ exc = "none"
    /\ pc = "get_file_chunks"

PlanInit ==
    /\ data \in ByteStrings(MaxLen) \ {<<>>}
    /\ os_cpu_count \in OsCpuCounts
    /\ requested \in 1..MaxW
    /\ InitRest

PlanSpec == PlanInit /\ [][PlanNext]_vars

FairPlanSpec == PlanSpec /\ WF_vars(PlanNext)

(***************************************************************************)
(* _process_file_chunk.                                                    *)
(***************************************************************************)
\* the first line of a text stream: up to and including its first "\n"
RECURSIVE FirstLine(_)
FirstLine(txt) ==
    IF txt = <<>> THEN <<>>
    ELSE IF Head(txt) = NL THEN <<NL>>
    ELSE <<Head(txt)>> \o FirstLine(Tail(txt))

\* line.replace("\n", "")
RemoveNewlines(line) == SelectSeq(line, LAMBDA c : c /= NL)

\* str.split(";")
RECURSIVE Split(_)
Split(s) ==
    IF \A i \in 1..Len(s) : s[i] /= SEMI THEN <<s>>
    ELSE LET i == CHOOSE i \in 1..Len(s) :
                      s[i] = SEMI /\ \A j \in 1..(i - 1) : s[j] /= SEMI
         IN <<SubSeq(s, 1, i - 1)>> \o Split(SubSeq(s, i + 1, Len(s)))

\* whether float(field) returns: over the characters of the model's files
\* (letters, digits, ";") exactly the non-empty strings of digits
IsFloat(field) == field /= <<>> /\ \A i \in 1..Len(field) : field[i] \in 48..57

\* float(field) of a string of digits
RECURSIVE Float(_)
Float(field) ==
    IF field = <<>> THEN 0
    ELSE 10 * Float(SubSeq(field, 1, Len(field) - 1)) + (field[Len(field)] - 48)

\* lines 73-87: fold one (location, measurement) into the mapping
Observe(result_, location, measurement) ==
    IF location \notin DOMAIN result_
    THEN (location :> <<measurement, measurement, measurement, 1>>) @@ result_
    ELSE LET r == result_[location]
         IN [result_ EXCEPT ![location] =
                <<IF measurement < r[1] THEN measurement ELSE r[1],
                  IF ~(measurement < r[1]) /\ measurement > r[2]
                  THEN measurement ELSE r[2],
                  r[3] + measurement,
                  r[4] + 1>>]

\* lines 65-87: the loop over the lines left in the text stream; offset is
\* the code's chunk_start, advanced by len(line) characters per line
RECURSIVE ForLineInF(_, _, _, _)
ForLineInF(txt, offset, end, result_) ==
    IF txt = <<>> THEN [exc |-> "none", result |-> result_]
    ELSE LET line == FirstLine(txt)
             rest == SubSeq(txt, Len(line) + 1, Len(txt))
             fields == Split(RemoveNewlines(line))
         IN IF offset + Len(line) > end
            THEN [exc |-> "none", result |-> result_]
            ELSE IF Len(fields) < 2
            THEN [exc |-> "IndexError", result |-> <<>>]
            ELSE IF ~IsFloat(fields[2])
            THEN [exc |-> "ValueError", result |-> <<>>]
            ELSE ForLineInF(rest, offset + Len(line), end,
                            Observe(result_, fields[1], Float(fields[2])))

\* lines 54-89: open in text mode, f.seek(chunk_start), fold, return
process_file_chunk(start, end) ==
    ForLineInF(UTF8Decode(SubSeq(data, start + 1, Len(data))), start, end, <<>>)

(***************************************************************************)
(* process_file.                                                           *)
(***************************************************************************)
\* lines 124-130: combine the stored list r with a chunk's measurements
Combine(r, measurements) ==
    <<IF measurements[1] < r[1] THEN measurements[1] ELSE r[1],
      IF ~(measurements[1] < r[1]) /\ measurements[2] > r[2]
      THEN measurements[2] ELSE r[2],
      r[3] + measurements[3],
      r[4] + measurements[4]>>

\* lines 120-130: one chunk_result merged into result (its keys are distinct,
\* so the order of chunk_result.items() does not matter)
MergeInto(result_, chunk_result) ==
    [location \in DOMAIN result_ \cup DOMAIN chunk_result |->
        IF location \notin DOMAIN result_ THEN chunk_result[location]
        ELSE IF location \notin DOMAIN chunk_result THEN result_[location]
        ELSE Combine(result_[location], chunk_result[location])]

\* lines 118-130: the merge loop over a list of chunk results
RECURSIVE MergeAll(_)
MergeAll(results) ==
    IF results = <<>> THEN <<>>
    ELSE MergeInto(MergeAll(SubSeq(results, 1, Len(results) - 1)),
                   results[Len(results)])

PoolVarsUnchanged ==
    UNCHANGED <<data, os_cpu_count, requested, cpu_count, file_size, chunk_size,
                chunk_start, chunk_end, start_end>>

\* line 110: mp.Pool(cpu_count)
ProcessFileEnter ==
    /\ pc = "process_file"
    /\ cpu_count >= 1
    /\ chunk_results' = [i \in 1..Len(start_end) |-> NotRun]
    /\ pc' = "starmap"
    /\ UNCHANGED <<merged, result, stdout, exc>>
    /\ PoolVarsUnchanged

\* line 110: mp.Pool raises ValueError for fewer than one process
PoolValueError ==
    /\ pc = "process_file"
    /\ cpu_count < 1
    /\ exc' = "ValueError"
    /\ pc' = "failed"
    /\ UNCHANGED <<chunk_results, merged, result, stdout>>
    /\ PoolVarsUnchanged

\* lines 112-115: a worker runs _process_file_chunk on one range and returns
ChunkReturns(i) ==
    /\ pc = "starmap"
    /\ chunk_results[i] = NotRun
    /\ LET r == process_file_chunk(start_end[i][1], start_end[i][2])
       IN /\ r.exc = "none"
          /\ chunk_results' = [chunk_results EXCEPT ![i] = r]
    /\ UNCHANGED <<merged, result, stdout, exc, pc>>
    /\ PoolVarsUnchanged

\* lines 112-115: a worker raises; starmap re-raises in process_file
ChunkRaises(i) ==
    /\ pc = "starmap"
    /\ chunk_results[i] = NotRun
    /\ LET r == process_file_chunk(start_end[i][1], start_end[i][2])
       IN /\ r.exc /= "none"
          /\ chunk_results' = [chunk_results EXCEPT ![i] = r]
          /\ exc' = r.exc
    /\ pc' = "failed"
    /\ UNCHANGED <<merged, result, stdout>>
    /\ PoolVarsUnchanged

\* lines 115-118: every worker has returned
StarmapReturn ==
    /\ pc = "starmap"
    /\ \A i \in 1..Len(chunk_results) : chunk_results[i] /= NotRun
    /\ result' = <<>>
    /\ merged' = 0
    /\ pc' = "merge"
    /\ UNCHANGED <<chunk_results, stdout, exc>>
    /\ PoolVarsUnchanged

\* the chunk result whose list result[location] is (line 122 stores the list
\* itself, so lines 126-130 update it in that chunk result too)
Owner(location) ==
    CHOOSE j \in 1..merged :
        /\ location \in DOMAIN chunk_results[j].result
        /\ \A i \in 1..(j - 1) : location \notin DOMAIN chunk_results[i].result

\* lines 119-130: one iteration of the outer merge loop
MergeChunk ==
    /\ pc = "merge"
    /\ merged < Len(chunk_results)
    /\ LET chunk_result == chunk_results[merged + 1].result
           merged_result == MergeInto(result, chunk_result)
       IN /\ result' = merged_result
          /\ chunk_results' =
                [j \in 1..Len(chunk_results) |->
                    IF j > merged THEN chunk_results[j]
                    ELSE [chunk_results[j] EXCEPT !.result =
                            [location \in DOMAIN chunk_results[j].result |->
                                IF Owner(location) = j THEN merged_result[location]
                                ELSE chunk_results[j].result[location]]]]
    /\ merged' = merged + 1
    /\ UNCHANGED <<stdout, exc, pc>>
    /\ PoolVarsUnchanged

\* lines 133-134: the elapsed time, then display_measurements(result): per
\* location its min, its mean (sum / count when count is not 0) and its max
Display ==
    /\ pc = "merge"
    /\ merged = Len(chunk_results)
    /\ stdout' = <<"Time taken",
                   [location \in DOMAIN result |->
                       <<result[location][1],
                         <<result[location][3], result[location][4]>>,
                         result[location][2]>>]>>
    /\ pc' = "done"
    /\ UNCHANGED <<chunk_results, merged, result, exc>>
    /\ PoolVarsUnchanged

Next ==
    \/ GetFileChunksEnter
    \/ GetFileChunksZeroDivision
    \/ PlanPropose
    \/ PlanScanBack
    \/ PlanScanDone
    \/ PlanSeekError
    \/ PlanCollapse
    \/ PlanKeep
    \/ PlanEmit
    \/ GetFileChunksReturn
    \/ ProcessFileEnter
    \/ PoolValueError
    \/ \E i \in 1..Len(chunk_results) : ChunkReturns(i)
    \/ \E i \in 1..Len(chunk_results) : ChunkRaises(i)
    \/ StarmapReturn
    \/ MergeChunk
    \/ Display

(***************************************************************************)
(* The program run to completion with another worker count on the same     *)
(* file: the same code as the actions above, as operators.                 *)
(***************************************************************************)
\* lines 36-37: the backward scan from a proposed chunk_end
RECURSIVE ScanBack(_)
ScanBack(position) ==
    IF is_line_end(position) THEN position ELSE ScanBack(position - 1)

\* lines 33-50: the ranges emitted from chunk_start on, for a chunk size >= 0
RECURSIVE PlanFrom(_, _)
PlanFrom(start, size) ==
    IF ~(start < Len(data)) THEN <<>>
    ELSE LET scanned == ScanBack(Min(Len(data), start + size))
             end == IF start = scanned THEN next_line(scanned) ELSE scanned
         IN <<<<start, end>>>> \o PlanFrom(end, size)

\* get_file_chunks, the starmap and the merge loop for cpu_count = count >= 1
RunWith(count) ==
    LET plan == PlanFrom(0, FloorDiv(Len(data), count))
    IN MergeAll([i \in 1..Len(plan) |->
                    process_file_chunk(plan[i][1], plan[i][2]).result])

(***************************************************************************)
(* Spec: the whole program on files of up to MaxLines lines.  A line is a  *)
(* record "A;1", "A;5", "A;9" or (with a two-byte key character) "éé;1",   *)
(* or, at most once per file, a line the input format does not allow: an   *)
(* empty line, "A", "A;1;2" or "A;x".  The last line ends with "\n" or not.*)
(***************************************************************************)
GoodLines == {<<65, 59, 49>>, <<65, 59, 53>>, <<65, 59, 57>>, <<233, 233, 59, 49>>}

BadLines == {<<>>, <<65>>, <<65, 59, 49, 59, 50>>, <<65, 59, 120>>}

WorkerCounts == {0 - 1, 0, 1, 2, 4, 8}

LineLists ==
    UNION {{lines \in [1..n -> GoodLines \cup BadLines] :
               Cardinality({i \in 1..n : lines[i] \in BadLines}) <= 1}
           : n \in 0..MaxLines}

\* the lines joined by "\n", with a final "\n" when trailing
RECURSIVE JoinLines(_, _)
JoinLines(lines, trailing) ==
    IF lines = <<>> THEN <<>>
    ELSE IF Len(lines) = 1 THEN lines[1] \o (IF trailing THEN <<NL>> ELSE <<>>)
    ELSE lines[1] \o <<NL>> \o JoinLines(Tail(lines), trailing)

Init ==
    /\ data \in {UTF8Encode(JoinLines(lines, trailing)) :
                    lines \in LineLists, trailing \in BOOLEAN}
    /\ os_cpu_count \in OsCpuCounts
    /\ requested \in WorkerCounts
    /\ InitRest

Spec == Init /\ [][Next]_vars

(***************************************************************************)
(* Claims about get_file_chunks (PlanSpec, FairPlanSpec).                  *)
(***************************************************************************)
Returned == pc = "process_file"

\* C1: for every file of length L > 0 and every worker count W >= 1 the
\* ranges of get_file_chunks, in emission order, are contiguous and
\* non-overlapping and cover exactly [0, L): the first starts at 0, each has
\* start < end, each starts where the previous one ended (the ranges emitted
\* so far end at chunk_start), and on return the last one ends at L.
C1_Coverage ==
    (Len(data) > 0 /\ requested >= 1 /\ pc \in {"while", "scan", "collapse", "append", "process_file"}) =>
        /\ \A i \in 1..Len(start_end) :
              /\ start_end[i][1] < start_end[i][2]
              /\ start_end[i][1] = (IF i = 1 THEN 0 ELSE start_end[i - 1][2])
        /\ chunk_start = (IF start_end = <<>> THEN 0
                          ELSE start_end[Len(start_end)][2])
        /\ chunk_start <= Len(data)
        /\ Returned => (start_end /= <<>> /\ chunk_start = Len(data))

\* a returned plan of three or more ranges over a file with no trailing "\n"
C1_Witness ==
    /\ Returned
    /\ Len(start_end) >= 3
    /\ data[Len(data)] /= NL

\* C5: every range boundary strictly between 0 and L is a position p whose
\* byte p-1 is "\n", whether chunk_end was fixed by the backward decrement or
\* by the forward next_line advance.
C5_Alignment ==
    \A i \in 1..Len(start_end) : \A j \in 1..2 :
        LET p == start_end[i][j]
        IN (0 < p /\ p < Len(data)) => data[p] = NL

\* a returned plan with an interior boundary from the forward advance (the
\* range is longer than chunk_size) and one from the backward decrement (the
\* range is shorter than chunk_size)
C5_Witness ==
    /\ Returned
    /\ \E i \in 1..Len(start_end) :
          /\ start_end[i][2] < Len(data)
          /\ start_end[i][2] - start_end[i][1] > chunk_size
    /\ \E i \in 1..Len(start_end) :
          /\ start_end[i][2] < Len(data)
          /\ start_end[i][2] - start_end[i][1] < chunk_size

\* C8: the planning loop terminates for L > 0 and W >= 1: every emitted range
\* strictly advances chunk_start, the backward scan never moves chunk_end
\* below chunk_start, and the function returns with chunk_start = L.
C8_Termination ==
    /\ [][pc = "append" => chunk_start' > chunk_start]_vars
    /\ [](pc \in {"scan", "collapse", "append"} => chunk_end >= chunk_start)
    /\ <>(Returned /\ chunk_start = Len(data))

\* the loop has returned on a file shorter than the worker count (target
\* chunk size 0) that needed more than one range
C8_Witness ==
    /\ Returned
    /\ chunk_size = 0
    /\ chunk_start = Len(data)
    /\ Len(start_end) >= 2

(***************************************************************************)
(* Claims about the whole program (Spec).                                  *)
(***************************************************************************)
\* the lines of a text, without their "\n" (a last line need not end in one)
RECURSIVE LinesOf(_)
LinesOf(txt) ==
    IF txt = <<>> THEN <<>>
    ELSE LET line == FirstLine(txt)
         IN <<RemoveNewlines(line)>> \o LinesOf(SubSeq(txt, Len(line) + 1, Len(txt)))

FileLines == LinesOf(UTF8Decode(data))

\* the input format: every line is <key>;<value> with a numeric value
WellFormedLine(line) == Len(Split(line)) = 2 /\ IsFloat(Split(line)[2])

WellFormedFile == \A i \in 1..Len(FileLines) : WellFormedLine(FileLines[i])

RECURSIVE SumOver(_, _)
SumOver(f, S) ==
    IF S = {} THEN 0
    ELSE LET x == CHOOSE x \in S : TRUE IN f[x] + SumOver(f, S \ {x})

\* the naive sequential reduction over all records of a well-formed file
NaiveReduction ==
    LET keyOf == [i \in 1..Len(FileLines) |-> Split(FileLines[i])[1]]
        valueOf == [i \in 1..Len(FileLines) |-> Float(Split(FileLines[i])[2])]
    IN [k \in {keyOf[i] : i \in 1..Len(FileLines)} |->
           LET at == {i \in 1..Len(FileLines) : keyOf[i] = k}
           IN <<CHOOSE v \in {valueOf[i] : i \in at} : \A i \in at : v <= valueOf[i],
                CHOOSE v \in {valueOf[i] : i \in at} : \A i \in at : v >= valueOf[i],
                SumOver(valueOf, at),
                Cardinality(at)>>]

\* the number of observations a mapping holds
TotalCount(mapping) ==
    SumOver([k \in DOMAIN mapping |-> mapping[k][4]], DOMAIN mapping)

\* the number of lines whose bytes lie in [start, end)
LinesIn(start, end) == Len(LinesOf(UTF8Decode(SubSeq(data, start + 1, end))))

\* C2: merging is order-independent: the merge loop run over any permutation
\* of the mappings the workers returned gives the same min, max, sum and count
\* for every key.
C2_MergeOrderIndependent ==
    (pc = "merge" /\ merged = 0) =>
        \A p \in Permutations(1..Len(chunk_results)) :
            MergeAll([i \in 1..Len(chunk_results) |-> chunk_results[p[i]].result])
                = MergeAll([i \in 1..Len(chunk_results) |-> chunk_results[i].result])

\* C3: chunk-count invariance: the final min, max, sum and count of every key
\* are the same for the worker counts 1, 2, 4 and 8 on the same file.
C3_ChunkCountInvariance ==
    (pc = "done" /\ requested \in {1, 2, 4, 8}) =>
        \A count \in {1, 2, 4, 8} : RunWith(Min(os_cpu_count, count)) = result

\* C4: when the merge combines the stored statistic a and a chunk's statistic
\* b of the same key, the result is min(a.min, b.min), max(a.max, b.max),
\* a.sum + b.sum, a.count + b.count.
C4_CombineRule ==
    [][(pc = "merge" /\ merged' = merged + 1) =>
          \A k \in DOMAIN result \cap DOMAIN chunk_results[merged + 1].result :
              LET a == result[k]
                  b == chunk_results[merged + 1].result[k]
              IN result'[k] = <<IF b[1] < a[1] THEN b[1] ELSE a[1],
                                IF b[2] > a[2] THEN b[2] ELSE a[2],
                                a[3] + b[3],
                                a[4] + b[4]>>]_vars

\* C6: a file with a line that does not split on ";" into exactly two fields,
\* or whose value is not numeric, never gets its summary printed.
C6_MalformedLineFails ==
    ~WellFormedFile => (pc /= "done" /\ stdout = <<>>)

\* C7: get_file_chunks never returns normally for a file of length 0 or a
\* requested worker count below 1.
C7_InvalidInputFails ==
    (Len(data) = 0 \/ requested < 1) =>
        pc \notin {"process_file", "starmap", "merge", "done"}

\* C9: with worker count 1 the final mapping of a well-formed file is the
\* naive sequential reduction over all of its records.
C9_SingleChunkEquivalence ==
    (pc = "done" /\ cpu_count = 1 /\ WellFormedFile) => result = NaiveReduction

\* C10: an invocation on range (start, end) folds exactly the lines whose
\* bytes lie in [start, end), so the counts of the merged mapping sum to the
\* number of lines of the file.
C10_EachLineFoldedOnce ==
    /\ pc = "starmap" =>
          \A i \in 1..Len(chunk_results) :
              chunk_results[i].exc = "none" =>
                  TotalCount(chunk_results[i].result)
                      = LinesIn(start_end[i][1], start_end[i][2])
    /\ pc = "done" => TotalCount(result) = Len(FileLines)

\* The operators of the previous section agree with the step-by-step run.
BigStepAgrees ==
    /\ Returned => start_end = PlanFrom(0, chunk_size)
    /\ pc = "done" => result = RunWith(cpu_count)

====
